---- MODULE Spec2Model ----
(***************************************************************************)
(* A model of calamari-ctl (cthulhu/cthulhu/calamari_ctl.py): the command  *)
(* dispatcher main(), the installation commands initialize and clear, and  *)
(* the account commands.  One invocation of the tool is one action: the    *)
(* whole run of the command's function, with the outcomes of the external  *)
(* collaborators (database, filesystem, systemctl, openssl) drawn by \E.   *)
(***************************************************************************)
EXTENDS Integers, Sequences, FiniteSets, TLC

\* ---------------------------------------------------------------- bounds
\* Number of alembic revisions; the latest one is "head".
MaxHead == 2

\* ------------------------------------------------------------- constants
\* The revision "head" stands for: the latest of the installed migrations.
HeadRevision == MaxHead

ALEMBIC_TABLE == "alembic_version"

\* The tables declared on Base.metadata by the imported model classes, in
\* the order create_all creates them.
ModelTables == <<"SyncObject", "Server", "Service", "Event">>

ModelTableSet == {ModelTables[i] : i \in 1..Len(ModelTables)}

SECRET_KEY == "secret_key_path"
SSL_KEY == "ssl_key"
SSL_CERT == "ssl_cert"
SecretMaterial == {SECRET_KEY, SSL_KEY, SSL_CERT}

SERVICE == "calamari.service"

\* The four legacy clean-up commands of setup_supervisor, in source order.
LegacyCmds ==
    <<"stop supervisord", "disable supervisord", "stop supervisor", "disable supervisor">>

DefaultRoles == <<"readonly", "read/write">>

\* Exception kinds.  SystemExit is what Django's command runner raises when
\* it ends the process itself; it is not an Exception.
NoExc == "none"
UserError == "CalamariUserError"
DoesNotExist == "DoesNotExist"
DatabaseError == "DatabaseError"
RuntimeError == "RuntimeError"
OSError == "OSError"
SystemExit == "SystemExit"

\* Inputs.  "" stands for an argument that was not given (None).
Usernames == {"alice", "bob"}
Emails == {"a@x.test", "b@x.test"}
Passwords == {"pw1", "pw2"}
RoleNames == {"readonly", "read/write", "superuser", "ghost"}
Unusable == "!"

\* ----------------------------------------------------------------- state
VARIABLES
    files,      \* the configured paths that exist on disk
    tables,     \* relations of cthulhu's (versioned) store
    version,    \* revision recorded in alembic_version (0: none)
    synced,     \* Django's store has its tables (syncdb has run)
    groups,     \* names of the Group rows
    users,      \* the user rows, in creation order
    logOwner,   \* owner of calamari_web's log file
    service,    \* the systemctl commands that took effect on calamari.service
    cmd,        \* the arguments of the last invocation
    pre,        \* the installation as that invocation found it
    ops,        \* the side-effecting calls it attempted, in order
    steps,      \* the steps of initialize it completed, in order
    log,        \* the messages it logged at INFO or above
    exc,        \* the exception that ended the command's function
    exit,       \* the process's exit status
    reports     \* the crash reports it wrote

vars ==
    <<files, tables, version, synced, groups, users, logOwner, service,
      cmd, pre, ops, steps, log, exc, exit, reports>>

\* The parsed arguments: the global flag, the invoker (os.geteuid() == 0)
\* and every subcommand's options, "" or FALSE where not given.
Args(func, devmode, root) ==
    [func |-> func, devmode |-> devmode, root |-> root,
     username |-> "", email |-> "", password |-> "", role_name |-> "",
     new_username |-> "", yes_i_am_sure |-> FALSE,
     admin_username |-> "", admin_password |-> "", admin_email |-> ""]

\* The outcomes of the external collaborators in one invocation: the call
\* that fails (fail), how far it got (n), the legacy commands' return codes
\* being 0 (rc) and what the operator types at a prompt (prompt).
Outcome(fail, n, rc, prompt) == [fail |-> fail, n |-> n, rc |-> rc, prompt |-> prompt]

AllOk == [i \in 1..Len(LegacyCmds) |-> TRUE]

\* The persistent state, as one record.
World ==
    [files |-> files, tables |-> tables, version |-> version,
     synced |-> synced, groups |-> groups, users |-> users,
     logOwner |-> logOwner, service |-> service]

\* The state of a running command: the world, the exception in flight and
\* what has been recorded so far.
Run(w) == [ops |-> <<>>, steps |-> <<>>, log |-> <<>>, exc |-> NoExc, w |-> w]

Raise(r, e) == [r EXCEPT !.exc = e]
Log(r, m) == [r EXCEPT !.log = Append(@, m)]
Op(r, o) == [r EXCEPT !.ops = Append(@, o)]
Step(r, s) == [r EXCEPT !.steps = Append(@, s)]
SetW(r, w) == [r EXCEPT !.w = w]

\* ------------------------------------------------------- user directory
\* django.contrib.auth as the tool uses it.  A write through the ORM
\* (create_user, save, assignment to user.groups, groups.add) reaches the
\* store at once: there is no transaction around a command.

UserIdx(us, name) == {i \in 1..Len(us) : us[i].username = name}

UserExists(us, name) == UserIdx(us, name) # {}

\* user_model.objects.get(username=name), for a name that exists
GetUser(us, name) == CHOOSE i \in UserIdx(us, name) : TRUE

NewUser(name, email, password, super) ==
    [groups |-> {}, username |-> name, email |-> email,
     password |-> IF password = "" THEN Unusable ELSE password,
     is_active |-> TRUE, is_superuser |-> super]

\* Mutant: a second create_user of a name replaces the row.
create_user_Replace(r, name, email, password, super) ==
    IF ~r.w.synced THEN Raise(r, DatabaseError)
    ELSE IF UserExists(r.w.users, name)
    THEN Op(SetW(r, [r.w EXCEPT !.users[GetUser(r.w.users, name)] =
                                    NewUser(name, email, password, super)]),
            "create_user")
    ELSE Op(SetW(r, [r.w EXCEPT !.users = Append(@, NewUser(name, email, password, super))]),
            "create_user")

\* user_model.objects.create_user / create_superuser: the username column
\* is unique, a second row of the same name is an IntegrityError.
create_user(r, name, email, password, super) ==
    IF ~r.w.synced THEN Raise(r, DatabaseError)
    ELSE IF UserExists(r.w.users, name) THEN Raise(r, "IntegrityError")
    ELSE Op(SetW(r, [r.w EXCEPT !.users = Append(@, NewUser(name, email, password, super))]),
            "create_user")

\* Mutant: the role is added to the memberships the user already has.
assign_role_KeepsGroups(r, a) ==
    IF ~r.w.synced THEN Raise(r, DatabaseError)
    ELSE IF ~UserExists(r.w.users, a.username)
    THEN Raise(Log(r, "User does not exist"), UserError)
    ELSE
        LET i == GetUser(r.w.users, a.username)
            cleared == Op(SetW(r, [r.w EXCEPT !.users[i].groups = {}]), "groups.clear")
        IN  IF a.role_name = "superuser"
            THEN Op(SetW(cleared, [cleared.w EXCEPT !.users[i].is_superuser = TRUE]),
                    "user.save")
            ELSE IF a.role_name \notin r.w.groups
            THEN Raise(Log(cleared, "Role does not exist"), UserError)
            ELSE Op(Op(SetW(r, [r.w EXCEPT !.users[i].groups = @ \cup {a.role_name},
                                           !.users[i].is_superuser = FALSE]),
                       "groups.add"), "user.save")

\* Mutant: the superuser flag is not reset when a role is assigned.
assign_role_KeepsSuperuser(r, a) ==
    IF ~r.w.synced THEN Raise(r, DatabaseError)
    ELSE IF ~UserExists(r.w.users, a.username)
    THEN Raise(Log(r, "User does not exist"), UserError)
    ELSE
        LET i == GetUser(r.w.users, a.username)
            cleared == Op(SetW(r, [r.w EXCEPT !.users[i].groups = {}]), "groups.clear")
        IN  IF a.role_name = "superuser"
            THEN Op(SetW(cleared, [cleared.w EXCEPT !.users[i].is_superuser = TRUE]),
                    "user.save")
            ELSE IF a.role_name \notin cleared.w.groups
            THEN Raise(Log(cleared, "Role does not exist"), UserError)
            ELSE Op(Op(SetW(cleared,
                            [cleared.w EXCEPT !.users[i].groups = {a.role_name}]),
                       "groups.add"), "user.save")

assign_role(r, a) ==
    IF ~r.w.synced THEN Raise(r, DatabaseError)
    ELSE IF ~UserExists(r.w.users, a.username)
    THEN Raise(Log(r, "User does not exist"), UserError)
    ELSE
        LET i == GetUser(r.w.users, a.username)
            \* user.groups = [] is written at once; is_superuser = False
            \* stays on the instance until user.save()
            cleared == Op(SetW(r, [r.w EXCEPT !.users[i].groups = {}]), "groups.clear")
        IN  IF a.role_name = "superuser"
            THEN Op(SetW(cleared, [cleared.w EXCEPT !.users[i].is_superuser = TRUE]),
                    "user.save")
            ELSE IF a.role_name \notin cleared.w.groups
            THEN Raise(Log(cleared, "Role does not exist"), UserError)
            ELSE Op(Op(SetW(cleared,
                            [cleared.w EXCEPT !.users[i].groups = {a.role_name},
                                              !.users[i].is_superuser = FALSE]),
                       "groups.add"), "user.save")

\* Mutant: the account is taken back when its role cannot be assigned.
add_user_Rollback(r, a) ==
    LET c == create_user(r, a.username, a.email, a.password, FALSE)
        d == assign_role(c, [a EXCEPT !.role_name = "read/write"])
    IN  IF c.exc = "IntegrityError"
        THEN Raise(Log(c, "User already exists"), UserError)
        ELSE IF c.exc # NoExc THEN c
        ELSE IF d.exc # NoExc THEN SetW(d, r.w)
        ELSE d

add_user(r, a) ==
    LET c == create_user(r, a.username, a.email, a.password, FALSE)
    IN  IF c.exc = "IntegrityError"
        THEN Raise(Log(c, "User already exists"), UserError)
        ELSE IF c.exc # NoExc THEN c
        ELSE assign_role(c, [a EXCEPT !.role_name = "read/write"])

\* o.fail = "save": the store rejects the UPDATE with an IntegrityError
change_user_active_status(r, username, active, o) ==
    IF ~r.w.synced THEN Raise(r, DatabaseError)
    ELSE IF ~UserExists(r.w.users, username) THEN Raise(r, DoesNotExist)
    ELSE IF o.fail = "save"
    THEN Raise(Log(Op(r, "user.save"), "User cannot be deleted"), UserError)
    ELSE LET i == GetUser(r.w.users, username)
         IN  Op(SetW(r, [r.w EXCEPT !.users[i].is_active = active]), "user.save")

disable_user(r, a, o) == change_user_active_status(r, a.username, FALSE, o)

enable_user(r, a, o) == change_user_active_status(r, a.username, TRUE, o)

\* Without --password Django's changepassword command prompts: o.prompt is
\* what the operator typed ("" when the prompt is given up).  The command
\* reports an unknown user or an abandoned prompt as a CommandError, which
\* Django's command runner turns into sys.exit(1).
change_password(r, a, o) ==
    IF ~r.w.synced THEN Raise(r, DatabaseError)
    ELSE IF a.password # ""
    THEN IF ~UserExists(r.w.users, a.username)
         THEN Log(r, "User does not exist")
         ELSE LET i == GetUser(r.w.users, a.username)
              IN  Op(SetW(r, [r.w EXCEPT !.users[i].password = a.password]), "user.save")
    ELSE IF ~UserExists(r.w.users, a.username) \/ o.prompt = ""
         THEN Raise(Op(r, "changepassword"), SystemExit)
         ELSE LET i == GetUser(r.w.users, a.username)
              IN  Op(SetW(r, [r.w EXCEPT !.users[i].password = o.prompt]), "changepassword")

\* Mutant: the new name is not looked up first.
rename_user_NoCheck(r, a) ==
    IF ~r.w.synced THEN Raise(r, DatabaseError)
    ELSE IF ~UserExists(r.w.users, a.username)
    THEN Log(r, "User does not exist")
    ELSE LET i == GetUser(r.w.users, a.username)
         IN  Op(SetW(r, [r.w EXCEPT !.users[i].username = a.new_username]), "user.save")

rename_user(r, a) ==
    IF ~r.w.synced THEN Raise(r, DatabaseError)
    ELSE IF UserExists(r.w.users, a.new_username)
    THEN Log(r, "New username is already in use")
    ELSE IF ~UserExists(r.w.users, a.username)
    THEN Log(r, "User does not exist")
    ELSE LET i == GetUser(r.w.users, a.username)
         IN  Op(SetW(r, [r.w EXCEPT !.users[i].username = a.new_username]), "user.save")

\* ------------------------------------------------------ external commands
\* run_cmd: the command is run, the message logged, and a non-zero return
\* code (ok = FALSE) raised as a RuntimeError.
run_cmd(r, command, message, ok) ==
    LET ran == Op(r, command)
        said == IF message = "" THEN ran ELSE Log(ran, message)
    IN  IF ok THEN said ELSE Raise(said, RuntimeError)

\* Mutant: a failing legacy command is not swallowed.
LegacyCleanup_Raises(r, rc, i) ==
    IF \E j \in i..Len(LegacyCmds) : ~rc[j]
    THEN run_cmd(r, LegacyCmds[CHOOSE j \in i..Len(LegacyCmds) :
                                  ~rc[j] /\ \A k \in i..(j - 1) : rc[k]], "", FALSE)
    ELSE r

\* The legacy clean-up of setup_supervisor from command i on: the four
\* commands share one try block, so the first failure ends the block.
RECURSIVE LegacyCleanup(_, _, _)
LegacyCleanup(r, rc, i) ==
    IF i > Len(LegacyCmds) THEN r
    ELSE LET ran == run_cmd(r, LegacyCmds[i], "", rc[i])
         IN  IF ran.exc = RuntimeError
             THEN Raise(ran, NoExc)          \* except RuntimeError: pass
             ELSE LegacyCleanup(ran, rc, i + 1)

\* run_cmd for a command of the target service, and what systemd then
\* holds; nothing once an exception is in flight.
ServiceCmd(r, command, ok) ==
    IF r.exc # NoExc THEN r
    ELSE IF ~ok THEN run_cmd(r, command, "", FALSE)
    ELSE SetW(run_cmd(r, command, "", TRUE),
              [r.w EXCEPT !.service = @ \cup {command}])

setup_supervisor(r, o) ==
    ServiceCmd(ServiceCmd(ServiceCmd(LegacyCleanup(r, o.rc, 1),
                                     "enable", o.fail # "enable"),
                          "restart", o.fail # "restart"),
               "set-property", o.fail # "set-property")

\* ------------------------------------------------------------ initialize
create_default_roles(r, o) ==
    LET n == IF o.fail = "roles" THEN o.n ELSE Len(DefaultRoles)
        made == {DefaultRoles[i] : i \in 1..n}
        ran == Op(SetW(r, [r.w EXCEPT !.groups = @ \cup made]), "create_default_roles")
    IN  IF o.fail = "roles" THEN Raise(ran, DatabaseError) ELSE ran

HasSuperuser(us) == \E i \in 1..Len(us) : us[i].is_superuser

\* Mutant: the admin account is created without looking it up first.
create_admin_users_NoLookup(r, a) ==
    IF a.admin_username # "" /\ a.admin_password # "" /\ a.admin_email # ""
    THEN create_user(Log(r, "Creating user"), a.admin_username, a.admin_email,
                     a.admin_password, TRUE)
    ELSE IF ~HasSuperuser(r.w.users)
         THEN Log(r, "You have not created an admin account")
         ELSE r

create_admin_users(r, a) ==
    IF a.admin_username # "" /\ a.admin_password # "" /\ a.admin_email # ""
    THEN IF ~UserExists(r.w.users, a.admin_username)
         THEN create_user(Log(r, "Creating user"), a.admin_username, a.admin_email,
                          a.admin_password, TRUE)
         ELSE r
    ELSE IF ~HasSuperuser(r.w.users)
         THEN Log(r, "You have not created an admin account")
         ELSE r

\* Mutant: the secret key is written on every run.
NeedSecretKey_Always(fs) == TRUE

\* if not os.path.exists(secret_key_path)
NeedSecretKey(fs) == SECRET_KEY \notin fs

\* Mutant: the probe never finds the marker.
MarkerPresent_Never(ts) == FALSE

\* if ALEMBIC_TABLE in Base.metadata.tables, after reflect(engine)
MarkerPresent(ts) == ALEMBIC_TABLE \in ts

\* if not os.path.exists(ssl_key)
NeedTls(fs) == SSL_KEY \notin fs

WriteOp(f) ==
    CASE f = SECRET_KEY -> "write secret_key"
      [] f = SSL_KEY -> "write ssl_key"
      [] f = SSL_CERT -> "write ssl_cert"

WriteFile(r, f) == Op(SetW(r, [r.w EXCEPT !.files = @ \cup {f}]), WriteOp(f))

EnsureSecretKey(r, o) ==
    IF NeedSecretKey(r.w.files)
    THEN IF o.fail = "secret_key" THEN Raise(r, OSError) ELSE WriteFile(r, SECRET_KEY)
    ELSE r

\* The tables create_all finds missing, in creation order.
MissingTables(ts) == SelectSeq(ModelTables, LAMBDA t : t \notin ts)

\* Base.metadata.create_all(engine); command.stamp(alembic_config, "head")
CreateAndStamp(r, o) ==
    LET missing == MissingTables(r.w.tables)
        n == IF o.fail = "create_all" /\ o.n < Len(missing) THEN o.n ELSE Len(missing)
        made == {missing[i] : i \in 1..n}
        created == Op(SetW(r, [r.w EXCEPT !.tables = @ \cup made]), "create_all")
    IN  IF n < Len(missing) THEN Raise(created, DatabaseError)
        ELSE IF o.fail = "stamp" THEN Raise(Op(created, "stamp"), DatabaseError)
        ELSE Op(SetW(created, [created.w EXCEPT !.tables = @ \cup {ALEMBIC_TABLE},
                                                !.version = HeadRevision]), "stamp")

\* command.upgrade(alembic_config, "head"): the revisions after the recorded
\* one are applied in order; a failing one leaves the earlier ones applied.
Upgrade(r, o) ==
    LET reached == IF o.fail = "upgrade" /\ r.w.version <= o.n /\ o.n < HeadRevision
                   THEN o.n ELSE HeadRevision
        moved == Op(SetW(r, [r.w EXCEPT !.version = reached]), "upgrade")
    IN  IF reached < HeadRevision THEN Raise(moved, DatabaseError) ELSE moved

Reconcile(r, o) ==
    IF o.fail = "reflect" THEN Raise(r, DatabaseError)
    ELSE IF MarkerPresent(r.w.tables)
    THEN Upgrade(Log(r, "Updating database..."), o)
    ELSE CreateAndStamp(Log(r, "Initializing database..."), o)

\* What quiet() logs when its body raises: the captured stdout and stderr.
Captured(r) == Log(Log(r, "captured stdout"), "captured stderr")

\* with quiet(): execute_from_command_line(["", "syncdb", "--noinput"])
SyncDb(r, o) ==
    IF o.fail = "syncdb"
    THEN Raise(Captured(Op(r, "syncdb")), DatabaseError)
    ELSE Op(SetW(r, [r.w EXCEPT !.synced = TRUE]), "syncdb")

CollectStatic(r, o) ==
    IF o.fail = "collectstatic"
    THEN Raise(Captured(Op(r, "collectstatic")), OSError)
    ELSE Op(r, "collectstatic")

FixOwnership(r, o) ==
    IF o.fail = "chown" THEN Raise(Op(r, "chown"), OSError)
    ELSE Op(SetW(r, [r.w EXCEPT !.logOwner = "apache"]), "chown")

\* openssl writes the key (-keyout) and then the certificate (-out): a
\* failing run leaves neither (o.n = 0) or the key alone (o.n = 1).
EnsureTls(r, o) ==
    IF NeedTls(r.w.files)
    THEN LET failed == o.fail = "openssl"
             k == IF ~failed \/ o.n >= 1 THEN WriteFile(r, SSL_KEY) ELSE r
             c == IF ~failed THEN WriteFile(k, SSL_CERT) ELSE k
             ran == run_cmd(c, "openssl", "Generating self-signed SSL certificate...", ~failed)
         IN  IF ran.exc # NoExc THEN ran ELSE Op(ran, "chmod ssl_cert")
    ELSE r

\* The step s of initialize is complete when its code returns normally.
Done(r, s) == IF r.exc # NoExc THEN r ELSE Step(r, s)

\* Each step runs unless an exception is already in flight.
SecretKeyStep(r, o) ==
    IF r.exc # NoExc THEN r
    ELSE Done(EnsureSecretKey(Log(r, "Loading configuration.."), o), "SecretKeyEnsured")

SchemaStep(r, o) ==
    IF r.exc # NoExc THEN r ELSE Done(Reconcile(r, o), "SchemaReconciled")

SyncDbStep(r, o) ==
    IF r.exc # NoExc THEN r ELSE Done(SyncDb(r, o), "SecondarySchemaSynced")

RolesStep(r, o) ==
    IF r.exc # NoExc THEN r ELSE Done(create_default_roles(r, o), "RolesSeeded")

AdminStep(r, a) ==
    IF r.exc # NoExc THEN r ELSE Done(create_admin_users(r, a), "AdminSeeded")

StaticStep(r, o) ==
    IF r.exc # NoExc THEN r
    ELSE Done(CollectStatic(Log(r, "Initializing web interface..."), o), "StaticCollected")

OwnershipStep(r, o) ==
    IF r.exc # NoExc THEN r ELSE Done(FixOwnership(r, o), "OwnershipFixed")

TlsStep(r, o) ==
    IF r.exc # NoExc THEN r ELSE Done(EnsureTls(r, o), "CredentialsEnsured")

SupervisorStep(r, o) ==
    IF r.exc # NoExc THEN r
    ELSE Done(setup_supervisor(Log(r, "Restarting services..."), o), "ServiceRestarted")

Complete(r) == IF r.exc # NoExc THEN r ELSE Log(r, "Complete.")

\* Mutant: the TLS pair is made before the log file's owner is fixed.
initialize_TlsFirst(r, a, o) ==
    Complete(
     SupervisorStep(
      OwnershipStep(
       TlsStep(
        StaticStep(
         AdminStep(
          RolesStep(
           SyncDbStep(
            SchemaStep(
             SecretKeyStep(r, o), o), o), o), a), o), o), o), o))

\* Mutant: the admin account is seeded before the default roles.
initialize_AdminFirst(r, a, o) ==
    Complete(
     SupervisorStep(
      TlsStep(
       OwnershipStep(
        StaticStep(
         RolesStep(
          AdminStep(
           SyncDbStep(
            SchemaStep(
             SecretKeyStep(r, o), o), o), a), o), o), o), o), o))

\* The steps of initialize in source order.
initialize(r, a, o) ==
    Complete(
     SupervisorStep(
      TlsStep(
       OwnershipStep(
        StaticStep(
         AdminStep(
          RolesStep(
           SyncDbStep(
            SchemaStep(
             SecretKeyStep(r, o), o), o), o), a), o), o), o), o))

\* ----------------------------------------------------------------- clear
\* Mutant: the confirmation flag is not looked at.
Unconfirmed_Never(a) == FALSE

\* if not args.yes_i_am_sure
Unconfirmed(a) == ~a.yes_i_am_sure

clear(r, a, o) ==
    IF Unconfirmed(a) THEN Log(r, "Use --yes-i-am-sure to proceed")
    ELSE
        LET s0 == Log(Log(r, "Loading configuration.."), "Dropping tables")
            dropped == Op(SetW(s0, [s0.w EXCEPT !.tables = @ \ ModelTableSet]), "drop_all")
        IN  IF o.fail = "drop_all" THEN Raise(Op(s0, "drop_all"), DatabaseError)
            ELSE IF o.fail = "reflect" THEN Raise(dropped, DatabaseError)
            ELSE IF MarkerPresent(dropped.w.tables)
            THEN Log(Op(SetW(dropped, [dropped.w EXCEPT !.tables = @ \ {ALEMBIC_TABLE},
                                                        !.version = 0]),
                        "drop alembic_version"), "Complete.")
            ELSE Log(dropped, "Complete.")

\* ------------------------------------------------------------------ main
\* args.func(args)
Call(r, a, o) ==
    CASE a.func = "initialize" -> initialize(r, a, o)
      [] a.func = "clear" -> clear(r, a, o)
      [] a.func = "add_user" -> add_user(r, a)
      [] a.func = "assign_role" -> assign_role(r, a)
      [] a.func = "change_password" -> change_password(r, a, o)
      [] a.func = "disable_user" -> disable_user(r, a, o)
      [] a.func = "enable_user" -> enable_user(r, a, o)
      [] a.func = "rename_user" -> rename_user(r, a)

\* Mutant: the gate lets everyone in.
Privileged_Always(a) == TRUE

\* if args.devmode or os.geteuid() == 0
Privileged(a) == a.devmode \/ a.root

\* Mutant: a user error of any command is taken as expected.
ExpectedUserError_AnyFunc(a, e) == e = UserError

\* if args.func in (assign_role, add_user) and isinstance(e, CalamariUserError)
ExpectedUserError(a, e) == a.func \in {"assign_role", "add_user"} /\ e = UserError

CrashReport(a, r) == [log |-> r.log, argv |-> a, backtrace |-> r.exc]

\* The try block of main(): the command's function behind the privilege
\* gate.
Guarded(w, a, o) ==
    IF Privileged(a) THEN Call(Run(w), a, o)
    ELSE Log(Run(w), "Need root privileges to run")

\* The except clause of main(), for the run r the try block left: the run,
\* the exit status and the crash reports written.  SystemExit is no
\* Exception: it is not handled.
Handle(a, r) ==
    IF r.exc = NoExc THEN [exit |-> 0, reports |-> <<>>, r |-> r]
    ELSE IF r.exc = SystemExit THEN [exit |-> 1, reports |-> <<>>, r |-> r]
    ELSE IF ExpectedUserError(a, r.exc) THEN [exit |-> 1, reports |-> <<>>, r |-> r]
    ELSE [exit |-> 0,
          reports |-> <<CrashReport(a, Log(r, "error"))>>,
          r |-> Log(Log(r, "error"), "We are sorry, an unexpected error occurred")]

main(w, a, o) == Handle(a, Guarded(w, a, o))

\* ---------------------------------------------------------------- inputs
Privs == {<<FALSE, TRUE>>, <<TRUE, FALSE>>, <<FALSE, FALSE>>}

RootOnly == {<<FALSE, TRUE>>}

InitializeFails ==
    {"none", "secret_key", "reflect", "create_all", "stamp", "upgrade", "syncdb",
     "roles", "collectstatic", "chown", "openssl", "enable", "restart", "set-property"}

\* How far a failing call can get before it fails.
Progress(fail) ==
    CASE fail = "create_all" -> 0..(Len(ModelTables) - 1)
      [] fail = "upgrade" -> 1..(HeadRevision - 1)
      [] fail = "roles" -> 0..(Len(DefaultRoles) - 1)
      [] fail = "openssl" -> 0..1
      [] OTHER -> {0}

\* The legacy commands run only when initialize gets as far as
\* setup_supervisor.
LegacyRcs(fail) ==
    IF fail \in {"none", "enable", "restart", "set-property"}
    THEN [1..Len(LegacyCmds) -> BOOLEAN] ELSE {AllOk}

InitializeOutcomes ==
    UNION {{Outcome(f, n, rc, "") : n \in Progress(f), rc \in LegacyRcs(f)} :
           f \in InitializeFails}

\* A few of them: the run that succeeds, and one failure in each part of
\* initialize.
FewOutcomes ==
    {o \in InitializeOutcomes :
        /\ o.fail \in {"none", "reflect", "roles", "restart"}
        /\ o.n = 0
        /\ \A i \in 2..Len(LegacyCmds) : o.rc[i]}

ClearOutcomes == {Outcome(f, 0, AllOk, "") : f \in {"none", "drop_all", "reflect"}}

SaveOutcomes == {Outcome(f, 0, AllOk, "") : f \in {"none", "save"}}

PromptOutcomes == {Outcome("none", 0, AllOk, p) : p \in Passwords \cup {""}}

NoOutcome == Outcome("none", 0, AllOk, "")

\* --admin-username, --admin-password, --admin-email: none given, one
\* missing, all given.
AdminArgs(names) ==
    {<<"", "", "">>} \cup {<<u, "", "a@x.test">> : u \in names}
        \cup {<<u, "pw1", "a@x.test">> : u \in names}

\* ---------------------------------------------------------------- actions
Fresh ==
    [files |-> {}, tables |-> {}, version |-> 0, synced |-> FALSE, groups |-> {},
     users |-> <<>>, logOwner |-> "root", service |-> {}]

\* No invocation is running: the shell prompt.
Idle == cmd.func = "none"

StartAt(w) ==
    /\ files = w.files /\ tables = w.tables /\ version = w.version
    /\ synced = w.synced /\ groups = w.groups /\ users = w.users
    /\ logOwner = w.logOwner /\ service = w.service
    /\ cmd = Args("none", FALSE, FALSE) /\ pre = w
    /\ ops = <<>> /\ steps = <<>> /\ log = <<>>
    /\ exc = NoExc /\ exit = 0 /\ reports = <<>>

\* One run of the tool with arguments a, from parse_args to process exit.
Becomes(m) ==
    /\ files' = m.r.w.files /\ tables' = m.r.w.tables
    /\ version' = m.r.w.version /\ synced' = m.r.w.synced
    /\ groups' = m.r.w.groups /\ users' = m.r.w.users
    /\ logOwner' = m.r.w.logOwner /\ service' = m.r.w.service
    /\ ops' = m.r.ops /\ steps' = m.r.steps /\ log' = m.r.log
    /\ exc' = m.r.exc /\ exit' = m.exit /\ reports' = m.reports

Invoke(a, o) ==
    /\ Becomes(main(World, a, o))
    /\ cmd' = a
    /\ pre' = World

\* The process is gone, and with it its arguments and its log buffer
\* (log_tmp is a NamedTemporaryFile); what it did to the installation stays.
ProcessEnd ==
    /\ ~Idle
    /\ cmd' = Args("none", FALSE, FALSE) /\ pre' = World
    /\ ops' = <<>> /\ steps' = <<>> /\ log' = <<>>
    /\ exc' = NoExc /\ exit' = 0 /\ reports' = <<>>
    /\ UNCHANGED <<files, tables, version, synced, groups, users, logOwner, service>>

Initialize(privs, admins, outcomes) ==
    \E p \in privs, ad \in admins, o \in outcomes :
        /\ Idle
        /\ Invoke([Args("initialize", p[1], p[2]) EXCEPT
                       !.admin_username = ad[1], !.admin_password = ad[2],
                       !.admin_email = ad[3]], o)

Clear(privs) ==
    \E p \in privs, yes \in BOOLEAN, o \in ClearOutcomes :
        /\ Idle
        /\ Invoke([Args("clear", p[1], p[2]) EXCEPT !.yes_i_am_sure = yes], o)

AddUser(privs, names, emails, passwords) ==
    \E p \in privs, u \in names, e \in emails, pw \in passwords \cup {""} :
        /\ Idle
        /\ Invoke([Args("add_user", p[1], p[2]) EXCEPT
                       !.username = u, !.email = e, !.password = pw], NoOutcome)

AssignRole(privs, names, roles) ==
    \E p \in privs, u \in names, role \in roles :
        /\ Idle
        /\ Invoke([Args("assign_role", p[1], p[2]) EXCEPT
                       !.username = u, !.role_name = role], NoOutcome)

ChangePassword(privs, names, passwords) ==
    \E p \in privs, u \in names, pw \in passwords \cup {""}, o \in PromptOutcomes :
        /\ Idle
        /\ pw # "" => o.prompt = ""
        /\ Invoke([Args("change_password", p[1], p[2]) EXCEPT
                       !.username = u, !.password = pw], o)

DisableUser(privs, names) ==
    \E p \in privs, u \in names, o \in SaveOutcomes :
        /\ Idle
        /\ Invoke([Args("disable_user", p[1], p[2]) EXCEPT !.username = u], o)

EnableUser(privs, names) ==
    \E p \in privs, u \in names, o \in SaveOutcomes :
        /\ Idle
        /\ Invoke([Args("enable_user", p[1], p[2]) EXCEPT !.username = u], o)

RenameUser(privs, names) ==
    \E p \in privs, u \in names, new \in names :
        /\ Idle
        /\ Invoke([Args("rename_user", p[1], p[2]) EXCEPT
                       !.username = u, !.new_username = new], NoOutcome)

\* -------------------------------------------------------- specifications
\* The whole tool on a fresh host, one operator account.
Init == StartAt(Fresh)

Next ==
    \/ Initialize(Privs, AdminArgs({"alice"}), FewOutcomes)
    \/ Clear(Privs)
    \/ AddUser(Privs, {"alice"}, {"a@x.test"}, {"pw1"})
    \/ AssignRole(Privs, {"alice"}, {"readonly", "superuser", "ghost"})
    \/ ChangePassword(Privs, {"alice"}, {"pw2"})
    \/ DisableUser(Privs, {"alice"})
    \/ EnableUser(Privs, {"alice"})
    \/ RenameUser(Privs, {"alice"})
    \/ ProcessEnd

Spec == Init /\ [][Next]_vars

\* initialize and clear on any installation the tool may be pointed at:
\* any of the secret files present, the versioned store blank or left at
\* some revision by an earlier release.
InitInstall ==
    \E fs \in SUBSET SecretMaterial, v \in 0..HeadRevision :
        StartAt([Fresh EXCEPT
                    !.files = fs, !.version = v,
                    !.tables = IF v = 0 THEN {} ELSE ModelTableSet \cup {ALEMBIC_TABLE}])

NextInstall ==
    \/ Initialize(Privs, AdminArgs({"alice"}), InitializeOutcomes)
    \/ Clear(Privs)
    \/ ProcessEnd

SpecInstall == InitInstall /\ [][NextInstall]_vars

\* The account commands on a host where initialize has run once, to its end
\* or as far as the seeding of the roles.
InitAccounts ==
    \E f \in {"none", "roles"}, ad \in {<<"", "", "">>, <<"alice", "pw1", "a@x.test">>} :
        StartAt(main(Fresh, [Args("initialize", FALSE, TRUE) EXCEPT
                                 !.admin_username = ad[1], !.admin_password = ad[2],
                                 !.admin_email = ad[3]],
                     Outcome(f, 0, AllOk, "")).r.w)

NextAccounts ==
    \/ AddUser(RootOnly, Usernames, Emails, Passwords)
    \/ AssignRole(RootOnly, Usernames, RoleNames)
    \/ ChangePassword(RootOnly, Usernames, Passwords)
    \/ DisableUser(RootOnly, Usernames)
    \/ EnableUser(RootOnly, Usernames)
    \/ RenameUser(RootOnly, Usernames)
    \/ ProcessEnd

SpecAccounts == InitAccounts /\ [][NextAccounts]_vars

\* ================================================================ claims
\* What the last invocation did, read off the recorded run.
Attempted(x) == \E i \in 1..Len(ops) : ops[i] = x

Completed(s) == \E i \in 1..Len(steps) : steps[i] = s

Logged(m) == \E i \in 1..Len(log) : log[i] = m

Count(x) == Cardinality({i \in 1..Len(ops) : ops[i] = x})

\* Position of step s among the completed steps (0: not completed).
StepAt(s) == IF Completed(s) THEN CHOOSE i \in 1..Len(steps) : steps[i] = s ELSE 0

\* The command's function was entered.
Entered(f) == cmd.func = f /\ (cmd.devmode \/ cmd.root)

Succeeded(f) == Entered(f) /\ exc = NoExc

HadMarker == ALEMBIC_TABLE \in pre.tables

HasMarker == ALEMBIC_TABLE \in tables

\* C1: in every run of initialize the marker probe decides the path of the
\* schema reconciliation: without the marker relation, create_all and then
\* stamp at head, once each, and never upgrade; with it, upgrade to head and
\* never create_all or stamp.
C1_ReconcilePath ==
    Entered("initialize") =>
        /\ ~HadMarker =>
            /\ ~Attempted("upgrade")
            /\ Count("create_all") <= 1 /\ Count("stamp") <= 1
            /\ Completed("SchemaReconciled") =>
                /\ Count("create_all") = 1 /\ Count("stamp") = 1
                /\ \E i, j \in 1..Len(ops) :
                       i < j /\ ops[i] = "create_all" /\ ops[j] = "stamp"
                /\ HasMarker /\ version = HeadRevision
                /\ ModelTableSet \subseteq tables
        /\ HadMarker =>
            /\ ~Attempted("create_all") /\ ~Attempted("stamp")
            /\ Count("upgrade") <= 1
            /\ Completed("SchemaReconciled") =>
                (Count("upgrade") = 1 /\ HasMarker /\ version = HeadRevision)
            /\ tables = pre.tables

C1_Witness ==
    /\ Succeeded("initialize") /\ ~HadMarker
    /\ Attempted("create_all") /\ Attempted("stamp")

\* C2: initialize never writes a secret-material file (secret key, TLS key,
\* TLS certificate) that was on disk when it started.
C2_NeverOverwrites ==
    Entered("initialize") =>
        \A f \in SecretMaterial : f \in pre.files => ~Attempted(WriteOp(f))

\* C3: assign_role of an unknown role on an existing user fails with the
\* user error and leaves the user's row as it was.
C3_FailedAssignKeepsRoles ==
    ( /\ Entered("assign_role")
      /\ pre.synced
      /\ UserExists(pre.users, cmd.username)
      /\ cmd.role_name \notin pre.groups \cup {"superuser"} )
    => (exc = UserError /\ users = pre.users)

\* C4: every run of setup_supervisor attempts all four legacy clean-up
\* commands, whichever of them fail.
C4_AllLegacyAttempted ==
    (Entered("initialize") /\ Completed("CredentialsEnsured")) =>
        \A i \in 1..Len(LegacyCmds) : Attempted(LegacyCmds[i])

\* C5 as stated: in a successful initialize the TLS bootstrap is complete
\* before the ownership fix, and that before the service restart.
C5_TlsBeforeOwnership ==
    Succeeded("initialize") =>
        /\ 0 < StepAt("CredentialsEnsured")
        /\ StepAt("CredentialsEnsured") < StepAt("OwnershipFixed")
        /\ StepAt("OwnershipFixed") < StepAt("ServiceRestarted")

\* C5 as amended: a successful initialize completes its steps in this order:
\* secret key, schema reconciliation, secondary schema sync, roles, admin
\* account, static files, ownership fix, TLS bootstrap, service restart.
C5_StepOrder ==
    Succeeded("initialize") =>
        steps = <<"SecretKeyEnsured", "SchemaReconciled", "SecondarySchemaSynced",
                  "RolesSeeded", "AdminSeeded", "StaticCollected", "OwnershipFixed",
                  "CredentialsEnsured", "ServiceRestarted">>

C5_Witness ==
    /\ Succeeded("initialize")
    /\ Attempted("chown") /\ Attempted("openssl") /\ Attempted("restart")

\* The installation as a successful initialize leaves it.
Installed(w) ==
    /\ SECRET_KEY \in w.files /\ SSL_KEY \in w.files
    /\ ALEMBIC_TABLE \in w.tables /\ w.version = HeadRevision

\* C6: a successful initialize leaves the installation such that the next
\* initialize writes none of the secret files, does not run create_all and
\* leaves the marker in place, at a revision not below the one it found.
C6_SecondRunIdempotent ==
    /\ Succeeded("initialize") => Installed(World)
    /\ (Entered("initialize") /\ Installed(pre)) =>
        /\ \A f \in SecretMaterial : ~Attempted(WriteOp(f))
        /\ files = pre.files
        /\ ~Attempted("create_all")
        /\ HasMarker /\ version >= pre.version
        /\ tables = pre.tables

\* A second run: the first one left calamari.service with its memory limit.
C6_Witness ==
    /\ Succeeded("initialize") /\ Installed(pre)
    /\ "set-property" \in pre.service

\* C7: clear without --yes-i-am-sure changes nothing; a clear with it that
\* returns leaves none of the model's tables and no marker relation; and
\* only a clear with the flag takes a marker relation away.
C7_ClearFrame ==
    /\ (cmd.func = "clear" /\ ~cmd.yes_i_am_sure) =>
           (World = pre /\ ops = <<>> /\ exc = NoExc)
    /\ (Succeeded("clear") /\ cmd.yes_i_am_sure) =>
           (tables \cap ModelTableSet = {} /\ ~HasMarker /\ version = 0)
    /\ (HadMarker /\ ~HasMarker) => (Entered("clear") /\ cmd.yes_i_am_sure)

C7_Witness ==
    /\ Succeeded("clear") /\ cmd.yes_i_am_sure
    /\ HadMarker /\ ModelTableSet \subseteq pre.tables

\* C8: add_user of a name already in the directory fails with the user
\* error, attempts no write and no role assignment, and leaves every row
\* (email, password, active flag, superuser flag, groups) as it was.
C8_DuplicateUserUntouched ==
    (Entered("add_user") /\ UserExists(pre.users, cmd.username)) =>
        /\ exc = UserError /\ exit = 1
        /\ Logged("User already exists")
        /\ users = pre.users /\ groups = pre.groups
        /\ ops = <<>>

C8_Witness ==
    /\ Entered("add_user") /\ UserExists(pre.users, cmd.username)
    /\ \E i \in 1..Len(pre.users) :
           /\ pre.users[i].username = cmd.username
           /\ pre.users[i].email # cmd.email
           /\ pre.users[i].password # cmd.password
           /\ pre.users[i].groups # {"read/write"}

\* C9 as stated: a CalamariUserError out of add_user or assign_role ends the
\* process with status 1 and no crash report; every other failure of any
\* command writes exactly one crash report, holding the arguments, the log so
\* far and the trace.
C9_EveryFailureReported ==
    cmd.func # "none" =>
        /\ (exc = UserError /\ cmd.func \in {"add_user", "assign_role"}) =>
               (exit = 1 /\ reports = <<>>)
        /\ ( /\ exc # NoExc
             /\ ~(exc = UserError /\ cmd.func \in {"add_user", "assign_role"}) ) =>
               /\ Len(reports) = 1
               /\ reports[1].argv = cmd
               /\ reports[1].backtrace = exc
               /\ reports[1].log = SubSeq(log, 1, Len(log) - 1)

\* C9 as amended: a CalamariUserError out of add_user or assign_role ends the
\* process with status 1 and no crash report; every other Exception out of
\* any command (a CalamariUserError of another command included) writes
\* exactly one crash report, holding the arguments, the log so far and the
\* trace; a SystemExit (Django's command runner ending the process) is not
\* handled: status 1 and no report; a run without an exception writes none.
C9_Dispatch ==
    cmd.func # "none" =>
        /\ (exc = UserError /\ cmd.func \in {"add_user", "assign_role"}) =>
               (exit = 1 /\ reports = <<>>)
        /\ ( /\ exc \notin {NoExc, SystemExit}
             /\ ~(exc = UserError /\ cmd.func \in {"add_user", "assign_role"}) ) =>
               /\ Len(reports) = 1
               /\ reports[1].argv = cmd
               /\ reports[1].backtrace = exc
               /\ Len(log) >= 2
               /\ reports[1].log = SubSeq(log, 1, Len(log) - 1)
        /\ exc = SystemExit => (exit = 1 /\ reports = <<>>)
        /\ exc = NoExc => (reports = <<>> /\ exit = 0)

\* A user error of a command other than add_user and assign_role, reported.
C9_Witness ==
    /\ cmd.func \in {"disable_user", "enable_user"}
    /\ exc = UserError /\ Len(reports) = 1

\* C10: without root and without --devmode no command's function is entered:
\* nothing changes and only the error is logged; with either, it is entered.
C10_PrivilegeGate ==
    cmd.func # "none" =>
        /\ ~(cmd.devmode \/ cmd.root) =>
               /\ World = pre
               /\ ops = <<>> /\ steps = <<>> /\ exc = NoExc /\ reports = <<>>
               /\ log = <<"Need root privileges to run">>
        /\ (cmd.devmode \/ cmd.root) =>
               /\ ~Logged("Need root privileges to run")
               /\ ops # <<>> \/ log # <<>> \/ exc # NoExc

C10_Witness ==
    /\ cmd.func = "initialize" /\ ~cmd.devmode /\ ~cmd.root
    /\ log = <<"Need root privileges to run">>
    /\ ~pre.synced

\* The steps of initialize, in the order of its source.
StepOrder ==
    <<"SecretKeyEnsured", "SchemaReconciled", "SecondarySchemaSynced", "RolesSeeded",
      "AdminSeeded", "StaticCollected", "OwnershipFixed", "CredentialsEnsured",
      "ServiceRestarted">>

\* The step (its position in StepOrder) a side-effecting call belongs to.
OpStep(x) ==
    CASE x = "write secret_key" -> 1
      [] x \in {"create_all", "stamp", "upgrade"} -> 2
      [] x = "syncdb" -> 3
      [] x = "create_default_roles" -> 4
      [] x = "create_user" -> 5
      [] x = "collectstatic" -> 6
      [] x = "chown" -> 7
      [] x \in {"write ssl_key", "write ssl_cert", "openssl", "chmod ssl_cert"} -> 8
      [] OTHER -> 9

AttemptedStep(k) == \E i \in 1..Len(ops) : OpStep(ops[i]) = k

\* The completed steps are the first ones of StepOrder, in order.
StepsInOrder == Len(steps) <= Len(StepOrder) /\ steps = SubSeq(StepOrder, 1, Len(steps))

\* C11: in every run of initialize the secret key exists before the schema
\* reconciliation or any call on the user directory is attempted; the
\* reconciliation is complete before the secondary sync is attempted; both
\* default roles exist before the admin account is created; the ownership
\* fix and the TLS bootstrap are complete before any command of the service
\* restart is attempted.
C11_Precedences ==
    Entered("initialize") =>
        /\ StepsInOrder
        /\ (\E k \in 2..5 : AttemptedStep(k)) =>
               (Completed("SecretKeyEnsured") /\ SECRET_KEY \in files)
        /\ Logged("Updating database...") \/ Logged("Initializing database...") =>
               (Completed("SecretKeyEnsured") /\ SECRET_KEY \in files)
        /\ AttemptedStep(3) => Completed("SchemaReconciled")
        /\ (AttemptedStep(5) \/ Completed("AdminSeeded")) =>
               /\ Completed("RolesSeeded")
               /\ \A i \in 1..Len(DefaultRoles) : DefaultRoles[i] \in groups
        /\ AttemptedStep(9) =>
               (Completed("OwnershipFixed") /\ Completed("CredentialsEnsured"))
        /\ \A i, j \in 1..Len(ops) : i < j => OpStep(ops[i]) <= OpStep(ops[j])

\* An initialize that creates the admin account and gets to the restart.
C11_Witness ==
    /\ Entered("initialize")
    /\ Attempted("write secret_key") /\ Attempted("create_user")
    /\ Attempted("restart")

\* What the completed steps of the last initialize have left behind.
EffectsKept ==
    /\ Completed("SecretKeyEnsured") => SECRET_KEY \in files
    /\ Completed("SchemaReconciled") => (HasMarker /\ version = HeadRevision)
    /\ Completed("SecondarySchemaSynced") => synced
    /\ Completed("RolesSeeded") =>
           \A i \in 1..Len(DefaultRoles) : DefaultRoles[i] \in groups
    /\ ( /\ Completed("AdminSeeded")
         /\ cmd.admin_username # "" /\ cmd.admin_password # ""
         /\ cmd.admin_email # "" ) => UserExists(users, cmd.admin_username)
    /\ Completed("OwnershipFixed") => logOwner = "apache"
    /\ Completed("CredentialsEnsured") => SSL_KEY \in files
    /\ Attempted("write ssl_key") => SSL_KEY \in files
    /\ Attempted("set-property") => {"enable", "restart"} \subseteq service
    /\ pre.files \subseteq files /\ pre.tables \subseteq tables
    /\ pre.groups \subseteq groups /\ pre.service \subseteq service
    /\ version >= pre.version
    /\ Len(users) >= Len(pre.users) /\ SubSeq(users, 1, Len(pre.users)) = pre.users

\* C12: an initialize that fails has completed the steps before the failing
\* one and nothing after it: no call of a later step is attempted, "Complete."
\* is not logged, and what the completed steps did stays.  A failing legacy
\* clean-up command never ends the run: the run goes on to enable, restart
\* and set-property, each until one of those fails.
C12_FailFastNoRollback ==
    Entered("initialize") =>
        /\ StepsInOrder /\ EffectsKept
        /\ exc # NoExc =>
               /\ Len(steps) < Len(StepOrder)
               /\ ~Logged("Complete.")
               /\ \A i \in 1..Len(ops) : OpStep(ops[i]) <= Len(steps) + 1
               /\ Len(reports) = 1
        /\ exc = NoExc => (steps = StepOrder /\ Logged("Complete."))
        /\ Completed("CredentialsEnsured") =>
               /\ Attempted(LegacyCmds[1]) /\ Attempted("enable")
               /\ exc # NoExc => ops[Len(ops)] \in {"enable", "restart", "set-property"}
               /\ exc = NoExc =>
                      /\ Attempted("restart") /\ Attempted("set-property")
                      /\ {"enable", "restart", "set-property"} \subseteq service

\* A legacy command failed, and the run failed later, at the restart, with
\* the key, the schema and the TLS pair it made still there.
C12_Witness ==
    /\ Entered("initialize") /\ exc = RuntimeError
    /\ ~Attempted(LegacyCmds[Len(LegacyCmds)])
    /\ ops[Len(ops)] = "restart"
    /\ Attempted("write secret_key") /\ Attempted("create_all")
    /\ Attempted("write ssl_key")
    /\ SECRET_KEY \in files /\ HasMarker /\ SSL_KEY \in files

\* C13: an initialize that finds schema tables but no version marker fails
\* in the reconciliation, and does not take the create-and-stamp path.
C13_PopulatedUnmarkedFails ==
    ( /\ Entered("initialize")
      /\ ~HadMarker /\ pre.tables \cap ModelTableSet # {} )
    => (exc # NoExc /\ ~Completed("SchemaReconciled") /\ ~Attempted("create_all"))

\* C14: a successful assign_role of "superuser" leaves the user with no role
\* and the superuser flag set; a successful assign_role of an existing role
\* leaves the flag clear and that role as the only membership; whatever the
\* user had before, and with nothing else in the directory changed.
C14_RoleExclusive ==
    (Succeeded("assign_role") /\ UserExists(pre.users, cmd.username)) =>
        LET i == GetUser(pre.users, cmd.username)
        IN  /\ cmd.role_name = "superuser" =>
                   users = [pre.users EXCEPT ![i].groups = {}, ![i].is_superuser = TRUE]
            /\ cmd.role_name # "superuser" =>
                   /\ cmd.role_name \in pre.groups
                   /\ users = [pre.users EXCEPT ![i].groups = {cmd.role_name},
                                                ![i].is_superuser = FALSE]

\* A member of a role is made superuser.
C14_Witness ==
    /\ Succeeded("assign_role") /\ cmd.role_name = "superuser"
    /\ \E i \in 1..Len(pre.users) :
           /\ pre.users[i].username = cmd.username
           /\ pre.users[i].groups # {} /\ ~pre.users[i].is_superuser
           /\ users[i].is_superuser

\* C15: every account has at most one role, and a superuser has none.
C15_OneAuthority ==
    \A i \in 1..Len(users) :
        /\ Cardinality(users[i].groups) <= 1
        /\ users[i].is_superuser => users[i].groups = {}

\* The admin account that initialize seeded is given a role.
C15_Witness ==
    /\ Succeeded("assign_role") /\ cmd.role_name # "superuser"
    /\ \E i \in 1..Len(pre.users) :
           /\ pre.users[i].username = cmd.username
           /\ pre.users[i].is_superuser
           /\ users[i].groups = {cmd.role_name}

\* C16: rename_user to a name that is in use changes no account, raises
\* nothing and logs the conflict; and no two accounts ever share a username.
C16_RenameConflict ==
    /\ (Entered("rename_user") /\ UserExists(pre.users, cmd.new_username)) =>
           /\ users = pre.users
           /\ exc = NoExc /\ exit = 0 /\ reports = <<>>
           /\ ops = <<>>
           /\ log = <<"New username is already in use">>
    /\ \A i, j \in 1..Len(users) : users[i].username = users[j].username => i = j

\* rename_user alice bob, with both in the directory.
C16_Witness ==
    /\ Entered("rename_user") /\ cmd.username # cmd.new_username
    /\ UserExists(pre.users, cmd.username)
    /\ UserExists(pre.users, cmd.new_username)

\* --admin-username, --admin-password and --admin-email were all given.
AdminGiven == cmd.admin_username # "" /\ cmd.admin_password # "" /\ cmd.admin_email # ""

\* C17: in an initialize that gets to the admin seeding, the seeding never
\* fails; with the three admin arguments and no account of that name, the
\* account is created as a superuser; with an account of that name, no
\* account is created or changed; with an argument missing, no account is
\* created and the guidance is logged exactly when there is no superuser.
C17_AdminSeeding ==
    (Entered("initialize") /\ Completed("RolesSeeded")) =>
        /\ Completed("AdminSeeded")
        /\ (AdminGiven /\ ~UserExists(pre.users, cmd.admin_username)) =>
               /\ users = Append(pre.users,
                                 NewUser(cmd.admin_username, cmd.admin_email,
                                         cmd.admin_password, TRUE))
               /\ users[Len(users)].is_superuser
               /\ Count("create_user") = 1
        /\ (AdminGiven /\ UserExists(pre.users, cmd.admin_username)) =>
               /\ users = pre.users
               /\ ~Attempted("create_user")
               /\ ~Logged("You have not created an admin account")
        /\ ~AdminGiven =>
               /\ users = pre.users
               /\ ~Attempted("create_user")
               /\ Logged("You have not created an admin account")
                      <=> ~HasSuperuser(pre.users)

\* The admin name is that of an account add_user made: not a superuser.
C17_Witness ==
    /\ Entered("initialize") /\ Completed("AdminSeeded") /\ AdminGiven
    /\ \E i \in 1..Len(pre.users) :
           /\ pre.users[i].username = cmd.admin_username
           /\ ~pre.users[i].is_superuser

\* C18: enable_user or disable_user of an unknown username leaves the
\* directory as it was and ends the process with status 1 and no crash
\* report.
C18_UnknownUserExpected ==
    ( /\ Entered("disable_user") \/ Entered("enable_user")
      /\ pre.synced
      /\ ~UserExists(pre.users, cmd.username) )
    => (users = pre.users /\ exit = 1 /\ reports = <<>>)

\* C19: a successful initialize leaves the secret key, the TLS key and the
\* TLS certificate on disk, whatever it found.
C19_SecretsAfterSuccess ==
    Succeeded("initialize") => SecretMaterial \subseteq files

\* C20: add_user of a new username either succeeds, the new account being
\* the last one, not a superuser and in read/write alone, when that role
\* exists; or, when it does not, fails with the user error and status 1 and no
\* report, the new account staying in the directory without a role.
C20_AddUserOutcomes ==
    ( /\ Entered("add_user")
      /\ pre.synced
      /\ ~UserExists(pre.users, cmd.username) )
    => LET made == NewUser(cmd.username, cmd.email, cmd.password, FALSE)
       IN  /\ "read/write" \in pre.groups =>
                  /\ exc = NoExc /\ exit = 0
                  /\ users = Append(pre.users, [made EXCEPT !.groups = {"read/write"}])
           /\ "read/write" \notin pre.groups =>
                  /\ exc = UserError /\ exit = 1 /\ reports = <<>>
                  /\ Logged("Role does not exist")
                  /\ users = Append(pre.users, made)
           /\ UserExists(users, cmd.username)
           /\ groups = pre.groups

\* add_user on a host whose roles were never seeded.
C20_Witness ==
    /\ Entered("add_user") /\ exc = UserError
    /\ ~UserExists(pre.users, cmd.username)
    /\ UserExists(users, cmd.username)

====
